---- MODULE Spec2Model ----
(***************************************************************************)
(* A model of mdBook's MDBook (src/book/mod.rs): the book-item tree held   *)
(* in MDBook.content, the depth-first iterator returned by iter(), and the *)
(* operations new, set_dest, set_src, read_config, parse_summary, init,    *)
(* build, test and create_gitignore.                                       *)
(***************************************************************************)
EXTENDS Naturals, Sequences, FiniteSets, TLC

VARIABLES
    root,       \* MDBook.root
    dest,       \* MDBook.dest
    src,        \* MDBook.src
    content,    \* MDBook.content: Vec<BookItem>
    fs,         \* the file system: path -> directory or file entry
    last,       \* the record of the last operation called on the book
    it1,        \* a BookItems iterator over content
    out1,       \* what it1 has yielded so far
    it2,        \* a second BookItems iterator
    out2,       \* what it2 has yielded so far
    content2,   \* the tree it2 borrows
    calls       \* the number of operations called on the book since new()

vars == <<root, dest, src, content, fs, last, it1, out1, it2, out2, content2, calls>>

(***************************************************************************)
(* Bounds of the model.                                                    *)
(***************************************************************************)
\* number of nodes of the trees the single iterator flattens
MaxNodes == 5
\* number of nodes of the trees two iterators flatten side by side
MaxPairNodes == 4
\* number of nodes of the trees a Spacer is inserted into
MaxSpacerNodes == 3
\* number of nodes of the outline a SUMMARY.md on disk describes
MaxDocNodes == 1
\* number of operations called on one book
MaxCalls == 3

(***************************************************************************)
(* Paths (std::path): a sequence of components; the component "/" at the   *)
(* head is the root directory and makes the path absolute.                 *)
(***************************************************************************)
EmptyPath == <<>>

is_absolute(p) == Len(p) > 0 /\ p[1] = "/"

\* Path::join: an absolute argument replaces the receiver
join(p, q) == IF is_absolute(q) THEN q ELSE p \o q

\* Path::starts_with: whole components of base are a prefix of p
starts_with(p, base) ==
    /\ Len(base) <= Len(p)
    /\ \A i \in 1..Len(base) : p[i] = base[i]

\* Path::strip_prefix, defined where starts_with holds
strip_prefix(p, base) == SubSeq(p, Len(base) + 1, Len(p))

\* Path::parent of a path with at least one component
parent(p) == SubSeq(p, 1, Len(p) - 1)

(***************************************************************************)
(* BookItem: Chapter(section, Chapter), Affix(Chapter), Spacer, with       *)
(* Chapter { name, path, sub_items }.                                      *)
(***************************************************************************)
Spacer == [kind |-> "Spacer", name |-> "", path |-> EmptyPath, sub_items |-> <<>>]

ChapterItem(nm, p, subs) ==
    [kind |-> "Chapter", name |-> nm, path |-> p, sub_items |-> subs]

AffixItem(nm, p, subs) ==
    [kind |-> "Affix", name |-> nm, path |-> p, sub_items |-> subs]

\* the ordered forests of exactly n book items, Spacers being leaves
RECURSIVE ForestsOf(_, _, _)
RECURSIVE ItemsOf(_, _, _)
ItemsOf(n, Names, Paths) ==
    IF n = 0 THEN {}
    ELSE (IF n = 1 THEN {Spacer} ELSE {})
         \cup { ChapterItem(nm, p, s) :
                    nm \in Names, p \in Paths, s \in ForestsOf(n - 1, Names, Paths) }
         \cup { AffixItem(nm, p, s) :
                    nm \in Names, p \in Paths, s \in ForestsOf(n - 1, Names, Paths) }

ForestsOf(n, Names, Paths) ==
    IF n = 0 THEN { <<>> }
    ELSE UNION { { <<it>> \o rest :
                     it \in ItemsOf(k, Names, Paths),
                     rest \in ForestsOf(n - k, Names, Paths) } : k \in 1..n }

ForestsUpTo(n, Names, Paths) == UNION { ForestsOf(k, Names, Paths) : k \in 0..n }

(***************************************************************************)
(* BookItems: the iterator. iter() is MDBook::iter; next is the step of    *)
(* the depth-first flattening iterator.                                    *)
(***************************************************************************)
NoItem == [kind |-> "None"]

\* iter() that starts after the first item
iter_skip_first(tree) == [items |-> tree, current_index |-> 1, stack |-> <<>>]

\* MDBook::iter over a tree
iter(tree) == [items |-> tree, current_index |-> 0, stack |-> <<>>]

\* the item the iterator is at (current_index counts from 0)
cur(it) == it.items[it.current_index + 1]

\* a counter that is the position among all the siblings
counter_by_position(items, idx) == idx + 1

\* the 1-based counter of a Chapter among the numbered Chapters of its level
counter(items, idx) ==
    Cardinality({ i \in 1..(idx + 1) : items[i].kind = "Chapter" })

\* only the immediate parent is looked at
numbered_parent_only(stack) ==
    stack = <<>> \/ stack[Len(stack)].items[stack[Len(stack)].index + 1].kind = "Chapter"

\* whether every open parent on the stack is a numbered Chapter
numbered(stack) ==
    \A i \in 1..Len(stack) : stack[i].items[stack[i].index + 1].kind = "Chapter"

\* the dotted label of the open parents: "2" for the second top-level Chapter
RECURSIVE prefix(_)
prefix(stack) ==
    IF stack = <<>> THEN ""
    ELSE LET f == stack[Len(stack)]
             up == prefix(SubSeq(stack, 1, Len(stack) - 1))
             n == ToString(counter(f.items, f.index))
         IN IF up = "" THEN n ELSE up \o "." \o n

\* the section label of the item the iterator is at; "" is the absent label
section(it) ==
    IF cur(it).kind = "Chapter" /\ numbered(it.stack)
    THEN LET up == prefix(it.stack)
             n == ToString(counter(it.items, it.current_index))
         IN IF up = "" THEN n ELSE up \o "." \o n
    ELSE ""

\* the node the yielded reference points to: its index at every level from
\* the top of the tree down (the identity of the borrowed &BookItem)
at(it) ==
    [i \in 1..(Len(it.stack) + 1) |->
        IF i <= Len(it.stack) THEN it.stack[i].index ELSE it.current_index]

\* the frames popped while the level is exhausted
RECURSIVE unwind(_)
unwind(it) ==
    IF it.current_index >= Len(it.items) /\ it.stack # <<>>
    THEN LET f == it.stack[Len(it.stack)]
         IN unwind([items |-> f.items,
                    current_index |-> f.index + 1,
                    stack |-> SubSeq(it.stack, 1, Len(it.stack) - 1)])
    ELSE it

\* Iterator::next: the new iterator state and the yielded (label, item)
next(it) ==
    LET u == unwind(it)
    IN IF u.current_index >= Len(u.items)
       THEN [it |-> u, some |-> FALSE, section |-> "", item |-> NoItem, at |-> <<>>]
       ELSE LET c == cur(u)
            IN [it |-> IF c.kind = "Spacer"
                       THEN [u EXCEPT !.current_index = u.current_index + 1]
                       ELSE [items |-> c.sub_items,
                             current_index |-> 0,
                             stack |-> Append(u.stack,
                                         [items |-> u.items, index |-> u.current_index])],
                some |-> TRUE,
                section |-> section(u),
                item |-> c,
                at |-> at(u)]

\* Some((section, &item)) as the consumer sees it
yielded(r) == [section |-> r.section, item |-> r.item, at |-> r.at]

\* for item in self.iter() { ... }: the iterator driven to exhaustion
RECURSIVE drain(_)
drain(it) ==
    LET r == next(it)
    IN IF r.some THEN <<yielded(r)>> \o drain(r.it)
       ELSE <<>>

(***************************************************************************)
(* The file system (std::fs). A disk maps the paths that exist to their    *)
(* entry; relative paths are taken from the working directory, which, like *)
(* "/", always exists.                                                     *)
(***************************************************************************)
Dir == [type |-> "dir", text |-> "", outline |-> <<>>, wellformed |-> FALSE]

\* a file holding text that is no outline document
TextFile(t) == [type |-> "file", text |-> t, outline |-> <<>>, wellformed |-> FALSE]

\* a file holding an outline document: its text and the tree it describes
OutlineFile(t, tree) == [type |-> "file", text |-> t, outline |-> tree, wellformed |-> TRUE]

IsDot(c) == c = "."

\* the "." components of a path name no other file
resolve(p) == SelectSeq(p, LAMBDA c : ~IsDot(c))

AlwaysThere(q) == q = <<>> \/ q = <<"/">>

\* Path::exists; the empty path names nothing
exists(disk, p) ==
    /\ p # EmptyPath
    /\ (resolve(p) \in DOMAIN disk \/ AlwaysThere(resolve(p)))

is_dir(disk, p) ==
    \/ AlwaysThere(resolve(p))
    \/ (resolve(p) \in DOMAIN disk /\ disk[resolve(p)].type = "dir")

put(disk, q, e) == [x \in (DOMAIN disk) \cup {q} |-> IF x = q THEN e ELSE disk[x]]

\* The state an operation threads through its I/O calls: the disk, the book's
\* content, whether an error was returned (try!) or a panic raised (unwrap,
\* expect), and the environment's fault: the I/O call that fails for a reason
\* outside the program, after `left` calls that succeed; `done` counts the
\* calls that succeeded.
Io(disk, tree, faulty, left) ==
    [fs |-> disk, content |-> tree, err |-> FALSE, panic |-> FALSE,
     faulty |-> faulty, left |-> left, done |-> 0]

Stopped(st) == st.err \/ st.panic

Faults(st) == st.faulty /\ st.left = 0

Spend(st) ==
    IF st.faulty THEN [st EXCEPT !.left = @ - 1, !.done = @ + 1]
    ELSE [st EXCEPT !.done = @ + 1]

Fail(st) == [st EXCEPT !.err = TRUE]

\* fs::create_dir: the parent must be a directory and the path new
create_dir(st, p) ==
    IF Stopped(st) THEN st
    ELSE IF Faults(st) \/ exists(st.fs, p) \/ ~is_dir(st.fs, parent(resolve(p)))
    THEN Fail(st)
    ELSE [Spend(st) EXCEPT !.fs = put(@, resolve(p), Dir)]

Prefixes(q) == { SubSeq(q, 1, k) : k \in 1..Len(q) }

\* fs::create_dir_all: every missing ancestor is created; Ok on the empty path
create_dir_all(st, p) ==
    IF Stopped(st) THEN st
    ELSE IF p = EmptyPath THEN st
    ELSE IF \/ Faults(st)
            \/ \E q \in Prefixes(resolve(p)) :
                  q \in DOMAIN st.fs /\ st.fs[q].type # "dir"
    THEN Fail(st)
    ELSE LET missing == { q \in Prefixes(resolve(p)) :
                            q \notin DOMAIN st.fs /\ ~AlwaysThere(q) }
         IN [Spend(st) EXCEPT !.fs =
                [x \in (DOMAIN @) \cup missing |-> IF x \in missing THEN Dir ELSE @[x]]]

\* File::create: an empty file, truncating one that exists
file_create(st, p) ==
    IF Stopped(st) THEN st
    ELSE IF \/ Faults(st)
            \/ p = EmptyPath
            \/ ~is_dir(st.fs, parent(resolve(p)))
            \/ is_dir(st.fs, p)
    THEN Fail(st)
    ELSE [Spend(st) EXCEPT !.fs = put(@, resolve(p), OutlineFile("", <<>>))]

(***************************************************************************)
(* markdown::summary::construct_bookitems: the outline parser, by what it  *)
(* returns for the documents of the model.                                 *)
(***************************************************************************)
SummaryLines == << "# Summary\n", "\n", "- [Chapter 1](./chapter_1.md)\n" >>

DefaultSummaryText == SummaryLines[1] \o SummaryLines[2] \o SummaryLines[3]

DefaultOutline == << ChapterItem("Chapter 1", <<".", "chapter_1.md">>, <<>>) >>

\* the tree a text written line by line by init() parses to
OutlineOfText(t) == IF t = DefaultSummaryText THEN DefaultOutline ELSE <<>>

\* writeln! to a file created by File::create
writeln(st, p, line) ==
    IF Stopped(st) THEN st
    ELSE IF Faults(st) THEN Fail(st)
    ELSE LET t == st.fs[resolve(p)].text \o line
         IN [Spend(st) EXCEPT !.fs = put(@, resolve(p), OutlineFile(t, OutlineOfText(t)))]

\* Ok(tree) or Err for the file at p
construct_bookitems(disk, p) ==
    IF exists(disk, p) /\ ~is_dir(disk, p) /\ disk[resolve(p)].wellformed
    THEN [ok |-> TRUE, tree |-> disk[resolve(p)].outline]
    ELSE [ok |-> FALSE, tree |-> <<>>]

(***************************************************************************)
(* MDBook                                                                  *)
(***************************************************************************)
\* MDBook::new: the directories the new book holds
new_dest(r) == <<"book">>

new_src(r) == <<"src">>

get_dest == dest

get_src == src

get_gitignore == join(root, <<".gitignore">>)

\* MDBook::set_dest / set_src: absolute as given, relative under root
set_path(r, p) == IF is_absolute(p) THEN p ELSE join(r, p)

\* parse_summary that appends to the tree held
parse_summary_append(st, srcdir) ==
    IF Stopped(st) THEN st
    ELSE IF Faults(st) THEN Fail(st)
    ELSE LET r == construct_bookitems(st.fs, join(srcdir, <<"SUMMARY.md">>))
         IN IF r.ok THEN [Spend(st) EXCEPT !.content = @ \o r.tree]
            ELSE Fail(st)

\* MDBook::parse_summary
parse_summary(st, srcdir) ==
    IF Stopped(st) THEN st
    ELSE IF Faults(st) THEN Fail(st)
    ELSE LET r == construct_bookitems(st.fs, join(srcdir, <<"SUMMARY.md">>))
         IN IF r.ok THEN [Spend(st) EXCEPT !.content = r.tree]
            ELSE Fail(st)

\* init(): SUMMARY.md is written when it does not exist
create_summary(st, srcdir) ==
    LET summary == join(srcdir, <<"SUMMARY.md">>)
    IN IF Stopped(st) \/ exists(st.fs, summary) THEN st
       ELSE writeln(writeln(writeln(file_create(st, summary),
                summary, SummaryLines[1]), summary, SummaryLines[2]),
                summary, SummaryLines[3])

\* the file of an item is written whether or not it exists
create_missing_overwrite(st, item, srcdir) ==
    IF Stopped(st) \/ item.kind = "Spacer" \/ item.path = EmptyPath THEN st
    ELSE LET path == join(srcdir, item.path)
         IN writeln(file_create(create_dir_all(st, parent(path)), path),
                    path, "# " \o item.name \o "\n")

\* init(): the file of one item is written when it does not exist
create_missing(st, item, srcdir) ==
    IF Stopped(st) \/ item.kind = "Spacer" \/ item.path = EmptyPath THEN st
    ELSE LET path == join(srcdir, item.path)
         IN IF exists(st.fs, path) THEN st
            ELSE writeln(file_create(create_dir_all(st, parent(path)), path),
                         path, "# " \o item.name \o "\n")

\* init(): for item in self.iter()
RECURSIVE create_all_missing(_, _, _)
create_all_missing(st, seq, srcdir) ==
    IF seq = <<>> \/ Stopped(st) THEN st
    ELSE create_all_missing(create_missing(st, Head(seq).item, srcdir), Tail(seq), srcdir)

\* init(): the root directory is created when it does not exist (unwrap)
create_root(st, r) ==
    IF exists(st.fs, r) THEN st
    ELSE LET s == create_dir_all(st, r)
         IN IF s.err THEN [s EXCEPT !.err = FALSE, !.panic = TRUE] ELSE s

create_if_missing(st, p) == IF Stopped(st) \/ exists(st.fs, p) THEN st ELSE create_dir(st, p)

\* MDBook::init, on the I/O state
init(st, r, d, sd) ==
    LET s1 == create_root(st, r)
        s2 == create_if_missing(s1, d)
        s3 == create_if_missing(s2, sd)
        s4 == create_summary(s3, sd)
        s5 == parse_summary(s4, sd)
    IN IF Stopped(s5) THEN s5
       ELSE create_all_missing(s5, drain(iter(s5.content)), sd)

\* whether init() got as far as parse_summary, and what it returned
init_parsed(st, r, d, sd) ==
    LET s4 == create_summary(create_if_missing(create_if_missing(create_root(st, r), d), sd), sd)
    IN IF Stopped(s4) THEN "none"
       ELSE IF Stopped(parse_summary(s4, sd)) THEN "err" ELSE "ok"

\* utils::fs::remove_dir_content: everything below dir is removed
remove_dir_content(st, dir) ==
    IF Stopped(st) THEN st
    ELSE IF Faults(st) \/ ~is_dir(st.fs, dir) THEN Fail(st)
    ELSE [Spend(st) EXCEPT !.fs =
            [x \in { q \in DOMAIN @ : ~(starts_with(q, resolve(dir)) /\ q # resolve(dir)) }
                |-> @[x]]]

\* Renderer::render: the output is written below dest
render(st, d) ==
    IF Stopped(st) THEN st
    ELSE IF Faults(st) \/ ~is_dir(st.fs, d) THEN Fail(st)
    ELSE [Spend(st) EXCEPT !.fs =
            put(@, resolve(join(d, <<"index.html">>)), TextFile("rendered"))]

\* build() that drops the result of the cleaning and renders regardless
build_ignore_clean_error(st, r, d, sd) ==
    LET s1 == init(st, r, d, sd)
        s2 == remove_dir_content(s1, d)
        s3 == render(IF Stopped(s1) THEN s2 ELSE [s2 EXCEPT !.err = FALSE, !.faulty = FALSE], d)
    IN [st |-> s3,
        log |-> <<IF Stopped(s1) THEN "init_failed" ELSE "init">>
                \o (IF Stopped(s1) THEN <<>>
                    ELSE <<IF Stopped(s2) THEN "clean_failed" ELSE "clean">>)
                \o (IF Stopped(s1) THEN <<>>
                    ELSE <<IF Stopped(s3) THEN "render_failed" ELSE "render">>)]

\* MDBook::build: the steps that ran, in order, and the state they leave
build(st, r, d, sd) ==
    LET s1 == init(st, r, d, sd)
        s2 == remove_dir_content(s1, d)
        s3 == render(s2, d)
    IN [st |-> s3,
        log |-> <<IF Stopped(s1) THEN "init_failed" ELSE "init">>
                \o (IF Stopped(s1) THEN <<>>
                    ELSE <<IF Stopped(s2) THEN "clean_failed" ELSE "clean">>)
                \o (IF Stopped(s2) THEN <<>>
                    ELSE <<IF Stopped(s3) THEN "render_failed" ELSE "render">>)]

\* test(): rustdoc --test on one file; the environment decides the outcome
rustdoc(st) == IF Stopped(st) THEN st ELSE IF Faults(st) THEN Fail(st) ELSE Spend(st)

RECURSIVE test_all(_, _)
test_all(st, seq) ==
    IF seq = <<>> \/ Stopped(st) THEN st
    ELSE LET item == Head(seq).item
         IN test_all(IF item.kind = "Chapter" /\ item.path # EmptyPath
                     THEN rustdoc(st) ELSE st,
                     Tail(seq))

\* MDBook::test, on the I/O state
test(st, sd) ==
    LET s1 == parse_summary(st, sd)
    IN IF Stopped(s1) THEN s1 ELSE test_all(s1, drain(iter(s1.content)))

\* a path as a string
RECURSIVE to_str(_)
to_str(p) ==
    IF p = <<>> THEN ""
    ELSE IF Len(p) = 1 THEN p[1]
    ELSE IF p[1] = "/" THEN "/" \o to_str(Tail(p))
    ELSE p[1] \o "/" \o to_str(Tail(p))

\* MDBook::create_gitignore
create_gitignore(st, r, d) ==
    LET gitignore == join(r, <<".gitignore">>)
    IN IF exists(st.fs, gitignore) THEN st
       ELSE IF ~starts_with(d, r) THEN st
       ELSE LET s == writeln(file_create(st, gitignore), gitignore,
                             to_str(strip_prefix(d, r)) \o "\n")
            IN IF s.err THEN [s EXCEPT !.err = FALSE, !.panic = TRUE] ELSE s

(***************************************************************************)
(* The book's life: new(root), then any of the operations in any order.    *)
(***************************************************************************)
Roots == { <<"/", "r">> }
DestArgs == { <<"out">>, <<"/", "out">> }
SrcArgs == { <<"docs">> }
DocNames == { "A" }
DocPaths == { EmptyPath, <<"d", "a.md">> }

\* the text of an outline document
RECURSIVE outline_text(_, _)
outline_text(items, indent) ==
    IF items = <<>> THEN ""
    ELSE LET i == Head(items)
             line == IF i.kind = "Spacer" THEN "---\n"
                     ELSE (IF i.kind = "Chapter" THEN indent \o "- " ELSE indent)
                          \o "[" \o i.name \o "](" \o to_str(i.path) \o ")\n"
         IN line \o outline_text(i.sub_items, indent \o "  ")
                 \o outline_text(Tail(items), indent)

\* the SUMMARY.md files found on disk: outlines, and a broken one
Documents ==
    { OutlineFile(outline_text(t, ""), t) : t \in ForestsUpTo(MaxDocNodes, DocNames, DocPaths) }
    \cup { TextFile("- [broken(\n") }

WithDirs(disk, p) ==
    LET missing == { q \in Prefixes(p) : q \notin DOMAIN disk /\ ~AlwaysThere(q) }
    IN [x \in (DOMAIN disk) \cup missing |-> IF x \in missing THEN Dir ELSE disk[x]]

WithFile(disk, p, e) == put(WithDirs(disk, parent(p)), p, e)

\* the disks a book is created on: an empty one, one with only the root
\* directory, and ones with the root directory and a SUMMARY.md in src/,
\* with or without the chapter file the outline names, written earlier
InitialDisks(r) ==
    LET rooted == WithDirs(<<>>, r)
        summarised == { WithFile(rooted, <<"src", "SUMMARY.md">>, d) : d \in Documents }
        naming == { WithFile(rooted, <<"src", "SUMMARY.md">>, d) :
                      d \in { x \in Documents :
                                \E i \in 1..Len(drain(iter(x.outline))) :
                                    drain(iter(x.outline))[i].item.path = <<"d", "a.md">> } }
    IN { <<>>, rooted }
       \cup summarised
       \cup { WithFile(b, <<"src", "d", "a.md">>, TextFile("old\n")) : b \in naming }

\* BookConfig::read_config: dest and src as book.json gives them, under root
Configs(r) ==
    { [dest |-> join(r, d), src |-> join(r, sd)] :
        d \in { <<"book">> }, sd \in { <<"src">> } }

\* the I/O state of a call that makes n I/O calls when none fails: the
\* environment fails call k + 1, or none when k = n
Env(disk, tree, k, n) == Io(disk, tree, k < n, k)

NoFault(disk, tree) == Io(disk, tree, FALSE, 0)

Result(st) == IF st.panic THEN "panic" ELSE IF st.err THEN "err" ELSE "ok"

Called(op, result, parsed, log) ==
    [op |-> op, result |-> result, parsed |-> parsed, log |-> log]

Iterators == <<it1, out1, it2, out2, content2>>

\* one more operation is called on the book
Call == calls < MaxCalls /\ calls' = calls + 1

\* MDBook::new(root)
New ==
    /\ root \in Roots
    /\ dest = new_dest(root)
    /\ src = new_src(root)
    /\ content = <<>>
    /\ fs \in InitialDisks(root)
    /\ last = Called("new", "ok", "none", <<>>)
    /\ calls = 0
    /\ content2 = <<>>
    /\ it1 = iter(content)
    /\ out1 = <<>>
    /\ it2 = iter(content2)
    /\ out2 = <<>>

SetDest ==
    /\ Call
    /\ \E d \in DestArgs :
        /\ dest' = set_path(root, d)
        /\ last' = Called("set_dest", "ok", "none", <<>>)
        /\ UNCHANGED <<root, src, content, fs, Iterators>>

SetSrc ==
    /\ Call
    /\ \E sd \in SrcArgs :
        /\ src' = set_path(root, sd)
        /\ last' = Called("set_src", "ok", "none", <<>>)
        /\ UNCHANGED <<root, dest, content, fs, Iterators>>

ReadConfig ==
    /\ Call
    /\ \E config \in Configs(root) :
        /\ dest' = config.dest
        /\ src' = config.src
        /\ last' = Called("read_config", "ok", "none", <<>>)
        /\ UNCHANGED <<root, content, fs, Iterators>>

CallInit ==
    /\ Call
    /\ \E n \in { init(NoFault(fs, content), root, dest, src).done } : \E k \in 0..n :
        LET st0 == Env(fs, content, k, n)
            st == init(st0, root, dest, src)
        IN /\ fs' = st.fs
           /\ content' = st.content
           /\ last' = Called("init", Result(st), init_parsed(st0, root, dest, src), <<>>)
           /\ UNCHANGED <<root, dest, src, Iterators>>

CallBuild ==
    /\ Call
    /\ \E n \in { build(NoFault(fs, content), root, dest, src).st.done } : \E k \in 0..n :
        LET st0 == Env(fs, content, k, n)
            b == build(st0, root, dest, src)
        IN /\ fs' = b.st.fs
           /\ content' = b.st.content
           /\ last' = Called("build", Result(b.st), init_parsed(st0, root, dest, src), b.log)
           /\ UNCHANGED <<root, dest, src, Iterators>>

CallTest ==
    /\ Call
    /\ \E n \in { test(NoFault(fs, content), src).done } : \E k \in 0..n :
        LET st0 == Env(fs, content, k, n)
            st == test(st0, src)
        IN /\ fs' = st.fs
           /\ content' = st.content
           /\ last' = Called("test", Result(st),
                             IF Stopped(parse_summary(st0, src)) THEN "err" ELSE "ok", <<>>)
           /\ UNCHANGED <<root, dest, src, Iterators>>

CallCreateGitignore ==
    /\ Call
    /\ \E n \in { create_gitignore(NoFault(fs, content), root, dest).done } : \E k \in 0..n :
        LET st == create_gitignore(Env(fs, content, k, n), root, dest)
        IN /\ fs' = st.fs
           /\ last' = Called("create_gitignore", Result(st), "none", <<>>)
           /\ UNCHANGED <<root, dest, src, content, Iterators>>

Next ==
    \/ SetDest
    \/ SetSrc
    \/ ReadConfig
    \/ CallInit
    \/ CallBuild
    \/ CallTest
    \/ CallCreateGitignore

Spec == New /\ [][Next]_vars

(***************************************************************************)
(* The iterator specifications: a consumer holds one or two iterators over *)
(* a parsed tree and pulls one item per step.                              *)
(***************************************************************************)
TreeNames == {"A"}
TreePaths == {EmptyPath}

BookIdle ==
    /\ root = EmptyPath
    /\ dest = <<"book">>
    /\ src = <<"src">>
    /\ fs = <<>>
    /\ last = Called("new", "ok", "none", <<>>)
    /\ calls = 0

BookUnchanged == UNCHANGED <<root, dest, src, content, fs, last, content2, calls>>

\* one call of it1.next()
Step1 ==
    LET r == next(it1)
    IN /\ it1' = r.it
       /\ out1' = IF r.some THEN Append(out1, yielded(r)) ELSE out1
       /\ UNCHANGED <<it2, out2>>
       /\ BookUnchanged

\* one call of it2.next()
Step2 ==
    LET r == next(it2)
    IN /\ it2' = r.it
       /\ out2' = IF r.some THEN Append(out2, yielded(r)) ELSE out2
       /\ UNCHANGED <<it1, out1>>
       /\ BookUnchanged

\* the consumer drops it1 and calls iter() again
Restart1 ==
    /\ out1 # <<>>
    /\ it1' = iter(content)
    /\ out1' = <<>>
    /\ UNCHANGED <<it2, out2>>
    /\ BookUnchanged

\* the consumer drops it2 and calls iter() again
Restart2 ==
    /\ out2 # <<>>
    /\ it2' = iter(content2)
    /\ out2' = <<>>
    /\ UNCHANGED <<it1, out1>>
    /\ BookUnchanged

InitIter ==
    /\ BookIdle
    /\ content \in ForestsUpTo(MaxNodes, TreeNames, TreePaths)
    /\ content2 = content
    /\ it1 = iter(content)
    /\ out1 = <<>>
    /\ it2 = iter(content2)
    /\ out2 = <<>>

NextIter == Step1 \/ Restart1

SpecIter == InitIter /\ [][NextIter]_vars

InitPair ==
    /\ BookIdle
    /\ content \in ForestsUpTo(MaxPairNodes, TreeNames, TreePaths)
    /\ content2 = content
    /\ it1 = iter(content)
    /\ out1 = <<>>
    /\ it2 = iter(content2)
    /\ out2 = <<>>

NextPair == Step1 \/ Step2 \/ Restart1 \/ Restart2

SpecPair == InitPair /\ [][NextPair]_vars

\* items with a Spacer inserted as sibling number k (from 0) of the group
\* whose parent is at position group (<<>> is the top level)
RECURSIVE InsertSpacer(_, _, _)
InsertSpacer(items, group, k) ==
    IF group = <<>>
    THEN SubSeq(items, 1, k) \o <<Spacer>> \o SubSeq(items, k + 1, Len(items))
    ELSE [items EXCEPT ![group[1] + 1].sub_items = InsertSpacer(@, Tail(group), k)]

(***************************************************************************)
(* Reference definitions over the tree, used to state the properties.      *)
(***************************************************************************)
\* the node at a position (indices from 0, top level first)
RECURSIVE NodeAt(_, _)
NodeAt(items, pos) ==
    IF Len(pos) = 1 THEN items[pos[1] + 1]
    ELSE NodeAt(items[pos[1] + 1].sub_items, Tail(pos))

\* the sibling group a position lies in
SiblingsOf(tree, pos) ==
    IF Len(pos) = 1 THEN tree
    ELSE NodeAt(tree, SubSeq(pos, 1, Len(pos) - 1)).sub_items

\* the positions of the nodes of items[i..], and below, in pre-order
RECURSIVE PreOrderFrom(_, _, _)
PreOrderFrom(items, i, base) ==
    IF i > Len(items) THEN <<>>
    ELSE LET here == Append(base, i - 1)
         IN <<here>> \o PreOrderFrom(items[i].sub_items, 1, here)
                    \o PreOrderFrom(items, i + 1, base)

PreOrder(tree) == PreOrderFrom(tree, 1, <<>>)

Exhausted(it) == ~next(it).some

\* the parents a Spacer can be inserted under: the top level, and every
\* Chapter or Affix
Groups(tree) ==
    { <<>> } \cup { PreOrder(tree)[i] : i \in { j \in 1..Len(PreOrder(tree)) :
                        NodeAt(tree, PreOrder(tree)[j]).kind # "Spacer" } }

GroupItems(tree, group) == IF group = <<>> THEN tree ELSE NodeAt(tree, group).sub_items

InitSpacer ==
    /\ BookIdle
    /\ content \in ForestsUpTo(MaxSpacerNodes, TreeNames, TreePaths)
    /\ \E g \in Groups(content) : \E k \in 0..Len(GroupItems(content, g)) :
          content2 = InsertSpacer(content, g, k)
    /\ it1 = iter(content)
    /\ out1 = <<>>
    /\ it2 = iter(content2)
    /\ out2 = <<>>

NextSpacer == Step1 \/ Step2

SpecSpacer == InitSpacer /\ [][NextSpacer]_vars

\* the proper ancestors of a position
Ancestors(pos) == { SubSeq(pos, 1, k) : k \in 1..(Len(pos) - 1) }

\* a Chapter none of whose ancestors is an Affix
IsNumbered(tree, pos) ==
    /\ NodeAt(tree, pos).kind = "Chapter"
    /\ \A a \in Ancestors(pos) : NodeAt(tree, a).kind = "Chapter"

UnderAffix(tree, pos) ==
    \/ NodeAt(tree, pos).kind = "Affix"
    \/ \E a \in Ancestors(pos) : NodeAt(tree, a).kind = "Affix"

\* C1: driving the iterator to exhaustion emits every node of the tree exactly
\* once, in pre-order: what has been yielded is always the beginning of the
\* pre-order list of the tree's nodes, each yielded item is the node at its
\* place, and at exhaustion the whole list has been yielded.
C1_PreOrderExactlyOnce ==
    LET po == PreOrder(content)
    IN /\ Len(out1) <= Len(po)
       /\ \A i \in 1..Len(out1) :
            /\ out1[i].at = po[i]
            /\ out1[i].item = NodeAt(content, po[i])
       /\ Exhausted(it1) => Len(out1) = Len(po)

C1_Witness ==
    /\ Exhausted(it1)
    /\ Len(out1) = MaxNodes
    /\ \E i \in 1..Len(out1) : Len(out1[i].at) >= 3
    /\ \E i \in 1..Len(out1) : Len(out1[i].at) = 1 /\ out1[i].at[1] >= 1

\* three top-level chapters, the second with two sub-items
ExampleTree ==
    << ChapterItem("A", EmptyPath, <<>>),
       ChapterItem("A", EmptyPath,
           << ChapterItem("A", EmptyPath, <<>>), ChapterItem("A", EmptyPath, <<>>) >>),
       ChapterItem("A", EmptyPath, <<>>) >>

Sections(out) == [i \in 1..Len(out) |-> out[i].section]

\* the label yielded for the node at pos, which has been yielded
LabelYieldedAt(out, pos) ==
    (CHOOSE e \in { out[i] : i \in 1..Len(out) } : e.at = pos).section

\* C2: a numbered Chapter (a Chapter with no Affix above it) is yielded with
\* its parent's label, ".", and its 1-based count among the Chapters of its
\* sibling group (the count alone at the top level); the count starts at 1 in
\* every group. The example tree yields "1", "2", "2.1", "2.2", "3".
C2_SectionLabels ==
    /\ \A i \in 1..Len(out1) :
          LET pos == out1[i].at
              sibs == SiblingsOf(content, pos)
              n == Cardinality({ j \in 0..pos[Len(pos)] : sibs[j + 1].kind = "Chapter" })
          IN IsNumbered(content, pos) =>
               out1[i].section =
                   IF Len(pos) = 1 THEN ToString(n)
                   ELSE LabelYieldedAt(out1, SubSeq(pos, 1, Len(pos) - 1))
                            \o "." \o ToString(n)
    /\ (content = ExampleTree /\ Exhausted(it1)) =>
          Sections(out1) = <<"1", "2", "2.1", "2.2", "3">>

C2_Witness ==
    /\ content = ExampleTree
    /\ Exhausted(it1)
    /\ Sections(out1) = <<"1", "2", "2.1", "2.2", "3">>

\* C4: an Affix, and every item below an Affix at any depth, is yielded with
\* the absent (empty) label.
C4_AffixExclusion ==
    \A i \in 1..Len(out1) :
        UnderAffix(content, out1[i].at) => out1[i].section = ""

C4_Witness ==
    \E i \in 1..Len(out1) :
        /\ out1[i].item.kind = "Chapter"
        /\ Len(out1[i].at) = 3
        /\ NodeAt(content, SubSeq(out1[i].at, 1, 1)).kind = "Affix"
        /\ NodeAt(content, SubSeq(out1[i].at, 1, 2)).kind = "Chapter"
        /\ out1[i].section = ""

\* the labels of the Chapters among what was yielded, in order
RECURSIVE ChapterLabels(_)
ChapterLabels(out) ==
    IF out = <<>> THEN <<>>
    ELSE (IF Head(out).item.kind = "Chapter" THEN <<Head(out).section>> ELSE <<>>)
         \o ChapterLabels(Tail(out))

\* C5: a Spacer is yielded with the absent label, and a tree with a Spacer
\* inserted anywhere among a group of siblings yields the same Chapter labels
\* as the tree without it.
C5_SpacerTransparent ==
    /\ \A i \in 1..Len(out1) : out1[i].item.kind = "Spacer" => out1[i].section = ""
    /\ \A i \in 1..Len(out2) : out2[i].item.kind = "Spacer" => out2[i].section = ""
    /\ (Exhausted(it1) /\ Exhausted(it2)) => ChapterLabels(out1) = ChapterLabels(out2)

\* a Spacer was inserted between chapter 1 and chapter 2
C5_Witness ==
    /\ Exhausted(it1)
    /\ Exhausted(it2)
    /\ Len(out2) = Len(out1) + 1
    /\ \E i \in 1..Len(out2) :
          /\ out2[i].item.kind = "Spacer"
          /\ out2[i].at = <<1>>
    /\ \E i \in 1..Len(out2) :
          /\ out2[i].at = <<2>>
          /\ out2[i].section = "2"
    /\ \E i \in 1..Len(out2) :
          /\ out2[i].at = <<0>>
          /\ out2[i].section = "1"

Min(a, b) == IF a <= b THEN a ELSE b

PairAgree ==
    /\ \A i \in 1..Min(Len(out1), Len(out2)) : out1[i] = out2[i]
    /\ (Exhausted(it1) /\ Exhausted(it2)) => out1 = out2
    /\ Len(out1) >= 1 => (out1[1].at = <<0>> /\ out1[1].item = content[1])
    /\ Len(out2) >= 1 => (out2[1].at = <<0>> /\ out2[1].item = content[1])

SummaryPath == join(src, <<"SUMMARY.md">>)

\* the tree the outline at src/SUMMARY.md describes, the default outline
\* when init() has to write the file
OutlineOnDisk ==
    IF exists(fs, SummaryPath) THEN fs[resolve(SummaryPath)].outline ELSE DefaultOutline

\* C6: the tree is installed atomically. A call whose parse fails returns
\* the error and leaves content as it was; a call whose parse succeeds
\* leaves content equal to the parsed tree, with nothing of the previous
\* tree kept or appended to; a call that does not parse leaves content alone.
C6_AtomicInstall ==
    [][ /\ last'.parsed = "err" => (content' = content /\ last'.result = "err")
        /\ last'.parsed = "ok" => content' = OutlineOnDisk
        /\ last'.parsed = "none" => content' = content ]_vars

\* a parse failed while a tree was installed, and the tree is still there
C6_Witness ==
    /\ last.parsed = "err"
    /\ last.result = "err"
    /\ content # <<>>

\* C7: the book returned by new(root) has src = root/src and dest = root/book.
C7_DefaultDirs ==
    last.op = "new" =>
        /\ get_src = join(root, <<"src">>)
        /\ get_dest = join(root, <<"book">>)

\* the entries of a disk below a directory
Below(disk, dir) ==
    { q \in DOMAIN disk : starts_with(q, resolve(dir)) /\ q # resolve(dir) }

InSeq(x, seq) == \E i \in 1..Len(seq) : seq[i] = x

\* C8: build() runs init, then the cleaning of the output directory, then
\* the renderer, each only if the ones before succeeded, and returns Ok only
\* after render did. When init or the parse fails, or the cleaning fails,
\* what was below dest is still there and no output was rendered; when the
\* cleaning ran, only what the renderer wrote is below dest.
C8_BuildOrder ==
    [][ last'.op = "build" =>
          LET log == last'.log
              index == resolve(join(dest, <<"index.html">>))
          IN /\ log \in { <<"init_failed">>,
                          <<"init", "clean_failed">>,
                          <<"init", "clean", "render_failed">>,
                          <<"init", "clean", "render">> }
             /\ last'.result = "ok" <=> log = <<"init", "clean", "render">>
             /\ last'.parsed # "ok" => log = <<"init_failed">>
             /\ ~InSeq("clean", log) =>
                    \A q \in Below(fs, dest) : q \in DOMAIN fs' /\ fs'[q] = fs[q]
             /\ ~InSeq("render", log) => (index \in DOMAIN fs' => index \in DOMAIN fs)
             /\ InSeq("clean", log) =>
                    Below(fs', dest) = IF InSeq("render", log) THEN {index} ELSE {}
             /\ InSeq("render", log) => index \in DOMAIN fs' ]_vars

C8_Witness ==
    /\ last.op = "build"
    /\ last.log = <<"init", "clean", "render">>
    /\ last.result = "ok"
    /\ resolve(join(dest, <<"index.html">>)) \in DOMAIN fs
    /\ content # <<>>

\* the nodes of a tree, by the tree's structure
Nodes(tree) == { NodeAt(tree, PreOrder(tree)[i]) : i \in 1..Len(PreOrder(tree)) }

\* the Chapters and Affixes of a tree that name a file
Backed(tree) == { n \in Nodes(tree) : n.kind # "Spacer" /\ n.path # EmptyPath }

\* C9: init() only adds missing files. Every entry that existed before the
\* call is there unchanged after it; a file the call added is SUMMARY.md or
\* the file src/path of a Chapter or Affix of the tree with a non-empty path,
\* holding "# " and that item's name once init returned Ok; after Ok the file
\* of every such item exists; and an init() that follows an init() that
\* returned Ok changes nothing on disk.
C9_InitOnlyAddsMissing ==
    [][ last'.op = "init" =>
          /\ \A q \in DOMAIN fs : q \in DOMAIN fs' /\ fs'[q] = fs[q]
          /\ \A q \in (DOMAIN fs') \ (DOMAIN fs) :
                fs'[q].type = "file" =>
                    \/ q = resolve(SummaryPath)
                    \/ \E n \in Backed(content') :
                          /\ q = resolve(join(src, n.path))
                          /\ last'.result = "ok" => fs'[q].text = "# " \o n.name \o "\n"
          /\ last'.result = "ok" =>
                \A n \in Backed(content') : resolve(join(src, n.path)) \in DOMAIN fs'
          /\ (last.op = "init" /\ last.result = "ok") => fs' = fs ]_vars

\* init() returned Ok twice in a row over an outline naming a chapter file
C9_Witness ==
    /\ last.op = "init"
    /\ last.result = "ok"
    /\ calls >= 2
    /\ \E n \in Backed(content) :
          /\ n.name = "A"
          /\ resolve(join(src, n.path)) \in DOMAIN fs
          /\ fs[resolve(join(src, n.path))].text = "# A\n"

\* C10: dest always starts with root, and create_gitignore() that returned
\* normally has left a .gitignore.
C10_DestUnderRoot ==
    /\ starts_with(dest, root)
    /\ (last.op = "create_gitignore" /\ last.result = "ok") =>
           resolve(get_gitignore) \in DOMAIN fs

====
